---- MODULE Spec2Model ----
(***************************************************************************)
(* Model of the SimpleFlash storage wrapper and of the SimpleDMA engine    *)
(* wrapper of the CH32V003 SimpleHAL library.                              *)
(*                                                                         *)
(* The vendor flash driver (FLASH_ErasePage, FLASH_ProgramHalfWord,        *)
(* FLASH_ProgramWord) and the DMA controller are the environment: a vendor *)
(* flash call either completes (an erase sets the 64 bytes of the page to  *)
(* 0xFF, a program clears bits, as NOR flash does) or returns a failure    *)
(* status chosen by the fault plan of the operation and changes nothing.   *)
(***************************************************************************)
EXTENDS Integers, Sequences, FiniteSets, TLC

(* ---------- bounds of the model ---------- *)
MaxSize == 3          \* largest config / struct / string size tried
MaxFailAt == 4        \* a fault plan fails the 1st .. MaxFailAt-th vendor call

(* ---------- SimpleFlash.h constants ---------- *)
FLASH_PAGE_SIZE == 64
FLASH_BASE_ADDRESS == 134217728
FLASH_STORAGE_PAGE_START == 254
FLASH_STORAGE_PAGE_COUNT == 2
FLASH_STORAGE_START_ADDR == FLASH_BASE_ADDRESS + (FLASH_STORAGE_PAGE_START * FLASH_PAGE_SIZE)
FLASH_STORAGE_SIZE == FLASH_STORAGE_PAGE_COUNT * FLASH_PAGE_SIZE
FLASH_CONFIG_PAGE == 254
FLASH_CONFIG_ADDR == FLASH_BASE_ADDRESS + (FLASH_CONFIG_PAGE * FLASH_PAGE_SIZE)
FLASH_CONFIG_SIZE == FLASH_PAGE_SIZE
FLASH_DATA_PAGE == 255
FLASH_DATA_ADDR == FLASH_BASE_ADDRESS + (FLASH_DATA_PAGE * FLASH_PAGE_SIZE)
FLASH_MAX_STRING_LENGTH == 60

(* ---------- integer helpers for the C bit operators ---------- *)
RECURSIVE BitAnd(_, _, _)
BitAnd(a, b, n) ==
    IF n = 0 \/ a = 0 \/ b = 0 THEN 0
    ELSE IF a = b THEN a
    ELSE ((a % 2) * (b % 2)) + 2 * BitAnd(a \div 2, b \div 2, n - 1)

RECURSIVE BitXor(_, _, _)
BitXor(a, b, n) ==
    IF n = 0 THEN 0
    ELSE (((a % 2) + (b % 2)) % 2) + 2 * BitXor(a \div 2, b \div 2, n - 1)

LoByte(h) == h % 256
HiByte(h) == (h \div 256) % 256

(* ---------- the flash array ---------- *)
(* The modelled window is the last word of page 253 (program flash just    *)
(* below the storage area) and the storage pages 254 and 255.              *)
WindowStart == FLASH_STORAGE_START_ADDR - 4
WindowEnd == FLASH_STORAGE_START_ADDR + FLASH_STORAGE_SIZE
Window == WindowStart .. (WindowEnd - 1)
StorageArea == FLASH_STORAGE_START_ADDR .. (WindowEnd - 1)
InWindow(first, last) == first >= WindowStart /\ last < WindowEnd
InStorage(first, last) == first >= FLASH_STORAGE_START_ADDR /\ last < WindowEnd
\* the flash array is the sequence of the window's bytes; Idx(addr) is the place of addr
Idx(addr) == addr - WindowStart + 1
ErasedPage == [i \in 1 .. FLASH_PAGE_SIZE |-> 255]
\* program code lies below the storage area (here each byte is the low byte of
\* its address, which is not 255); the storage pages start erased
InitFlash == [i \in 1 .. (FLASH_STORAGE_START_ADDR - WindowStart) |->
                  LoByte(WindowStart + i - 1)]
             \o ErasedPage \o ErasedPage

(* ---------- Utility functions ---------- *)
CrcShift(crc) ==
    IF crc >= 32768 THEN BitXor((crc * 2) % 65536, 4129, 16)
    ELSE (crc * 2) % 65536

CrcByte(crc, b) ==
    CrcShift(CrcShift(CrcShift(CrcShift(
    CrcShift(CrcShift(CrcShift(CrcShift(BitXor(crc, b * 256, 16)))))))))

RECURSIVE CrcFrom(_, _, _, _)
\* crc is a uint16_t and never negative; the test makes the running value be
\* computed byte by byte, as the loop does
CrcFrom(crc, data, i, len) ==
    IF i >= len \/ crc < 0 THEN crc
    ELSE CrcFrom(CrcByte(crc, data[i + 1]), data, i + 1, len)

Flash_CalculateCRC16(data, len) == CrcFrom(65535, data, 0, len)

Flash_IsAddressValid_Wide(addr) ==
    /\ addr >= FLASH_STORAGE_START_ADDR - 2
    /\ addr < (FLASH_STORAGE_START_ADDR + FLASH_STORAGE_SIZE)

Flash_IsAddressValid(addr) ==
    /\ addr >= FLASH_STORAGE_START_ADDR
    /\ addr < (FLASH_STORAGE_START_ADDR + FLASH_STORAGE_SIZE)

Flash_GetPageAddress(page_num) ==
    IF page_num # FLASH_CONFIG_PAGE /\ page_num # FLASH_DATA_PAGE THEN 0
    ELSE FLASH_BASE_ADDRESS + (page_num * FLASH_PAGE_SIZE)

(* ---------- vendor driver: the environment of SimpleFlash ---------- *)
(* A context c carries the flash array through one public operation:      *)
(*   fl    the flash contents                                              *)
(*   n     number of vendor erase/program calls made so far                *)
(*   vfail a vendor call has returned a status other than FLASH_COMPLETE   *)
(*   oob   a vendor call was issued for an address outside the storage area*)
(* A fault plan p = [at, st] makes the at-th vendor call return st.        *)
VendorFailStatus == {"FLASH_BUSY", "FLASH_TIMEOUT"}
NoFault == [at |-> 0, st |-> "FLASH_COMPLETE"]
FaultPlans == {NoFault} \cup [at : 1 .. MaxFailAt, st : VendorFailStatus]

Ctx(fl) == [fl |-> fl, n |-> 0, vfail |-> FALSE, oob |-> FALSE]

VendorStatus(c, p) == IF c.n + 1 = p.at THEN p.st ELSE "FLASH_COMPLETE"

\* programming can only clear bits: the cell becomes old AND new
Program(fl, addr, b) ==
    IF InWindow(addr, addr)
    THEN [fl EXCEPT ![Idx(addr)] = IF @ = 255 THEN b ELSE BitAnd(@, b, 8)]
    ELSE fl

FLASH_ErasePage(c, p, page_addr) ==
    LET st == VendorStatus(c, p)
        last == page_addr + FLASH_PAGE_SIZE - 1
    IN  [c |-> [fl |-> IF st = "FLASH_COMPLETE"
                       THEN IF InWindow(page_addr, last)
                            THEN SubSeq(c.fl, 1, Idx(page_addr) - 1) \o ErasedPage
                                 \o SubSeq(c.fl, Idx(last) + 1, Len(c.fl))
                            ELSE c.fl
                       ELSE c.fl,
                n |-> c.n + 1,
                vfail |-> c.vfail \/ st # "FLASH_COMPLETE",
                oob |-> c.oob \/ ~InStorage(page_addr, last)],
         st |-> st]

FLASH_ProgramHalfWord(c, p, addr, data) ==
    LET st == VendorStatus(c, p)
    IN  [c |-> [fl |-> IF st = "FLASH_COMPLETE"
                       THEN Program(Program(c.fl, addr, LoByte(data)),
                                    addr + 1, HiByte(data))
                       ELSE c.fl,
                n |-> c.n + 1,
                vfail |-> c.vfail \/ st # "FLASH_COMPLETE",
                oob |-> c.oob \/ ~InStorage(addr, addr + 1)],
         st |-> st]

FLASH_ProgramWord(c, p, addr, data) ==
    LET st == VendorStatus(c, p)
        lo == data[1]
        hi == data[2]
    IN  [c |-> [fl |-> IF st = "FLASH_COMPLETE"
                       THEN Program(Program(Program(Program(c.fl,
                                addr, LoByte(lo)), addr + 1, HiByte(lo)),
                                addr + 2, LoByte(hi)), addr + 3, HiByte(hi))
                       ELSE c.fl,
                n |-> c.n + 1,
                vfail |-> c.vfail \/ st # "FLASH_COMPLETE",
                oob |-> c.oob \/ ~InStorage(addr, addr + 3)],
         st |-> st]

(* ---------- private functions ---------- *)
Flash_ConvertStatus_BusyOk(status) ==
    CASE status = "FLASH_COMPLETE" -> "FLASH_OK"
      [] status = "FLASH_BUSY" -> "FLASH_OK"
      [] status = "FLASH_TIMEOUT" -> "FLASH_ERROR_TIMEOUT"
      [] status = "FLASH_ERROR_PG" -> "FLASH_ERROR_WRITE"
      [] status = "FLASH_ERROR_WRP" -> "FLASH_ERROR_WRITE"
      [] status = "FLASH_ALIGN_ERROR" -> "FLASH_ERROR_ALIGN"
      [] status = "FLASH_ADR_RANGE_ERROR" -> "FLASH_ERROR_RANGE"
      [] status = "FLASH_OP_RANGE_ERROR" -> "FLASH_ERROR_RANGE"
      [] OTHER -> "FLASH_ERROR"

Flash_ConvertStatus(status) ==
    CASE status = "FLASH_COMPLETE" -> "FLASH_OK"
      [] status = "FLASH_BUSY" -> "FLASH_ERROR_BUSY"
      [] status = "FLASH_TIMEOUT" -> "FLASH_ERROR_TIMEOUT"
      [] status = "FLASH_ERROR_PG" -> "FLASH_ERROR_WRITE"
      [] status = "FLASH_ERROR_WRP" -> "FLASH_ERROR_WRITE"
      [] status = "FLASH_ALIGN_ERROR" -> "FLASH_ERROR_ALIGN"
      [] status = "FLASH_ADR_RANGE_ERROR" -> "FLASH_ERROR_RANGE"
      [] status = "FLASH_OP_RANGE_ERROR" -> "FLASH_ERROR_RANGE"
      [] OTHER -> "FLASH_ERROR"

Ret(c, ret) == [c |-> c, ret |-> ret]

(* ---------- Core functions ---------- *)
Flash_ErasePage(c, p, page_num) ==
    IF page_num # FLASH_CONFIG_PAGE /\ page_num # FLASH_DATA_PAGE
    THEN Ret(c, "FLASH_ERROR_RANGE")
    ELSE LET page_addr == Flash_GetPageAddress(page_num)
         IN  IF page_addr = 0 THEN Ret(c, "FLASH_ERROR_RANGE")
             ELSE LET r == FLASH_ErasePage(c, p, page_addr)
                  IN  Ret(r.c, Flash_ConvertStatus(r.st))

Flash_EraseAll(c, p) ==
    LET r == Flash_ErasePage(c, p, FLASH_CONFIG_PAGE)
    IN  IF r.ret # "FLASH_OK" THEN r
        ELSE Flash_ErasePage(r.c, p, FLASH_DATA_PAGE)

(* ---------- Basic read functions ---------- *)
Flash_ReadByte(fl, addr) ==
    IF ~Flash_IsAddressValid(addr) THEN 0 ELSE fl[Idx(addr)]

Flash_ReadHalfWord(fl, addr) ==
    IF ~Flash_IsAddressValid(addr) \/ addr % 2 = 1 THEN 0
    ELSE fl[Idx(addr)] + 256 * fl[Idx(addr + 1)]

\* a 32-bit data word is the pair <<low half-word, high half-word>>
Flash_ReadWord(fl, addr) ==
    IF ~Flash_IsAddressValid(addr) \/ addr % 4 # 0 THEN <<0, 0>>
    ELSE <<fl[Idx(addr)] + 256 * fl[Idx(addr + 1)],
           fl[Idx(addr + 2)] + 256 * fl[Idx(addr + 3)]>>

(* ---------- Basic write functions ---------- *)
Flash_WriteHalfWord(c, p, addr, data) ==
    IF ~Flash_IsAddressValid(addr) THEN Ret(c, "FLASH_ERROR_RANGE")
    ELSE IF addr % 2 = 1 THEN Ret(c, "FLASH_ERROR_ALIGN")
    ELSE LET r == FLASH_ProgramHalfWord(c, p, addr, data)
         IN  IF r.st = "FLASH_COMPLETE" /\ Flash_ReadHalfWord(r.c.fl, addr) # data
             THEN Ret(r.c, "FLASH_ERROR_VERIFY")
             ELSE Ret(r.c, Flash_ConvertStatus(r.st))

Flash_WriteWord(c, p, addr, data) ==
    IF ~Flash_IsAddressValid(addr) THEN Ret(c, "FLASH_ERROR_RANGE")
    ELSE IF addr % 4 # 0 THEN Ret(c, "FLASH_ERROR_ALIGN")
    ELSE LET r == FLASH_ProgramWord(c, p, addr, data)
         IN  IF r.st = "FLASH_COMPLETE" /\ Flash_ReadWord(r.c.fl, addr) # data
             THEN Ret(r.c, "FLASH_ERROR_VERIFY")
             ELSE Ret(r.c, Flash_ConvertStatus(r.st))

Flash_WriteByte_Swapped(c, p, addr, data) ==
    IF ~Flash_IsAddressValid(addr) THEN Ret(c, "FLASH_ERROR_RANGE")
    ELSE LET aligned_addr == addr - (addr % 2)
             half_word == IF addr % 2 = 1
                          THEN (256 * Flash_ReadByte(c.fl, aligned_addr)) + data
                          ELSE Flash_ReadByte(c.fl, aligned_addr + 1) + (256 * data)
         IN  Flash_WriteHalfWord(c, p, aligned_addr, half_word)

Flash_WriteByte(c, p, addr, data) ==
    IF ~Flash_IsAddressValid(addr) THEN Ret(c, "FLASH_ERROR_RANGE")
    ELSE LET aligned_addr == addr - (addr % 2)
             half_word == IF addr % 2 = 1
                          THEN Flash_ReadByte(c.fl, aligned_addr) + (256 * data)
                          ELSE (256 * Flash_ReadByte(c.fl, aligned_addr + 1)) + data
         IN  Flash_WriteHalfWord(c, p, aligned_addr, half_word)

(* ---------- String functions ---------- *)
(* A C string is the sequence of its characters before the terminator, so  *)
(* strlen(str) = Len(str) and str[len] is the terminator 0.                *)
CharAt(str, i) == IF i < Len(str) THEN str[i + 1] ELSE 0

RECURSIVE ReadStringFrom(_, _, _, _, _)
ReadStringFrom(fl, addr, buffer, i, max_len) ==
    IF i >= max_len - 1
    THEN [len |-> i, buffer |-> buffer]
    ELSE LET ch == Flash_ReadByte(fl, addr + i)
         IN  IF ch = 0 THEN [len |-> i, buffer |-> buffer]
             ELSE ReadStringFrom(fl, addr, Append(buffer, ch), i + 1, max_len)

Flash_ReadString(fl, addr, max_len) ==
    IF ~Flash_IsAddressValid(addr) \/ max_len = 0
    THEN [len |-> 0, buffer |-> <<>>]
    ELSE ReadStringFrom(fl, addr, <<>>, 0, max_len)

RECURSIVE WriteStringFrom(_, _, _, _, _, _)
WriteStringFrom(c, p, addr, str, i, len) ==
    IF i > len THEN Ret(c, "FLASH_OK")
    ELSE LET r == Flash_WriteByte(c, p, addr + i, CharAt(str, i))
         IN  IF r.ret # "FLASH_OK" THEN r
             ELSE WriteStringFrom(r.c, p, addr, str, i + 1, len)

Flash_WriteString(c, p, addr, str) ==
    IF ~Flash_IsAddressValid(addr) THEN Ret(c, "FLASH_ERROR_INVALID")
    ELSE IF Len(str) > FLASH_MAX_STRING_LENGTH THEN Ret(c, "FLASH_ERROR_RANGE")
    ELSE WriteStringFrom(c, p, addr, str, 0, Len(str))

(* ---------- Struct/Buffer functions ---------- *)
Flash_ReadStruct(fl, addr, size) ==
    IF ~Flash_IsAddressValid(addr) \/ size = 0
    THEN [ret |-> "FLASH_ERROR_INVALID", buffer |-> <<>>]
    ELSE IF size > FLASH_PAGE_SIZE
    THEN [ret |-> "FLASH_ERROR_RANGE", buffer |-> <<>>]
    ELSE [ret |-> "FLASH_OK",
          buffer |-> [i \in 1 .. size |-> Flash_ReadByte(fl, addr + i - 1)]]

RECURSIVE WriteStructFrom(_, _, _, _, _, _)
WriteStructFrom(c, p, addr, src, i, size) ==
    IF i >= size THEN Ret(c, "FLASH_OK")
    ELSE LET r == Flash_WriteByte(c, p, addr + i, src[i + 1])
         IN  IF r.ret # "FLASH_OK" THEN r
             ELSE WriteStructFrom(r.c, p, addr, src, i + 1, size)

Flash_WriteStruct(c, p, addr, src, size) ==
    IF ~Flash_IsAddressValid(addr) \/ size = 0 THEN Ret(c, "FLASH_ERROR_INVALID")
    ELSE IF size > FLASH_PAGE_SIZE THEN Ret(c, "FLASH_ERROR_RANGE")
    ELSE WriteStructFrom(c, p, addr, src, 0, size)

(* ---------- Configuration management ---------- *)
Flash_SaveConfig(c, p, src, size) ==
    IF size = 0 \/ size > (FLASH_CONFIG_SIZE - 2) THEN Ret(c, "FLASH_ERROR_INVALID")
    ELSE LET crc == Flash_CalculateCRC16(src, size)
             e == Flash_ErasePage(c, p, FLASH_CONFIG_PAGE)
         IN  IF e.ret # "FLASH_OK" THEN e
             ELSE LET w == Flash_WriteStruct(e.c, p, FLASH_CONFIG_ADDR, src, size)
                  IN  IF w.ret # "FLASH_OK" THEN w
                      ELSE Flash_WriteHalfWord(w.c, p, FLASH_CONFIG_ADDR + size, crc)

Flash_LoadConfig(fl, size) ==
    IF size = 0 \/ size > (FLASH_CONFIG_SIZE - 2)
    THEN [ok |-> FALSE, buffer |-> <<>>]
    ELSE LET rd == Flash_ReadStruct(fl, FLASH_CONFIG_ADDR, size)
         IN  IF rd.ret # "FLASH_OK" THEN [ok |-> FALSE, buffer |-> rd.buffer]
             ELSE LET stored_crc == Flash_ReadHalfWord(fl, FLASH_CONFIG_ADDR + size)
                      calculated_crc == Flash_CalculateCRC16(rd.buffer, size)
                  IN  [ok |-> (stored_crc = calculated_crc), buffer |-> rd.buffer]

Flash_IsConfigValid(fl) ==
    LET first_word == Flash_ReadWord(fl, FLASH_CONFIG_ADDR)
    IN  IF first_word = <<65535, 65535>> THEN FALSE ELSE TRUE

(* ---------- Advanced functions ---------- *)
RECURSIVE WriteBackFrom(_, _, _, _, _)
WriteBackFrom(c, p, page_addr, page_buffer, i) ==
    IF i >= FLASH_PAGE_SIZE THEN Ret(c, "FLASH_OK")
    ELSE LET r == Flash_WriteByte(c, p, page_addr + i, page_buffer[i + 1])
         IN  IF r.ret # "FLASH_OK" THEN r
             ELSE WriteBackFrom(r.c, p, page_addr, page_buffer, i + 1)

Flash_WriteByteWithErase(c, p, addr, data) ==
    IF ~Flash_IsAddressValid(addr) THEN Ret(c, "FLASH_ERROR_RANGE")
    ELSE LET page_addr == addr - (addr % FLASH_PAGE_SIZE)
             page_num == ((addr - FLASH_BASE_ADDRESS) \div FLASH_PAGE_SIZE) % 256
             offset == addr - page_addr
             page_buffer == [i \in 1 .. FLASH_PAGE_SIZE |->
                                IF i - 1 = offset THEN data
                                ELSE Flash_ReadByte(c.fl, page_addr + i - 1)]
             e == Flash_ErasePage(c, p, page_num)
         IN  IF e.ret # "FLASH_OK" THEN e
             ELSE WriteBackFrom(e.c, p, page_addr, page_buffer, 0)

Flash_WriteHalfWordWithErase(c, p, addr, data) ==
    IF ~Flash_IsAddressValid(addr) \/ addr % 2 = 1 THEN Ret(c, "FLASH_ERROR_ALIGN")
    ELSE LET r == Flash_WriteByteWithErase(c, p, addr, data % 256)
         IN  IF r.ret # "FLASH_OK" THEN r
             ELSE Flash_WriteByteWithErase(r.c, p, addr + 1, (data \div 256) % 256)

Flash_WriteWordWithErase(c, p, addr, data) ==
    IF ~Flash_IsAddressValid(addr) \/ addr % 4 # 0 THEN Ret(c, "FLASH_ERROR_ALIGN")
    ELSE LET r == Flash_WriteHalfWordWithErase(c, p, addr, data[1])
         IN  IF r.ret # "FLASH_OK" THEN r
             ELSE Flash_WriteHalfWordWithErase(r.c, p, addr + 2, data[2])

(* ====================== SimpleFlash state machine ====================== *)
(* The application calls the library synchronously: a call runs to its     *)
(* return (app = "returned", with the return value in fret and fout), then *)
(* the application moves on (app = "idle") and makes its next call.        *)
VARIABLES
    app,                \* "idle", or "returned" from the call fop
    flash,              \* contents of the flash window
    flash_initialized,  \* static bool flash_initialized
    vendor_oob,         \* history: a vendor call addressed flash outside the storage area
    fop,                \* the last public Flash_* call and its arguments
    fret,               \* its return value (a FlashStatus, or "true"/"false")
    fout,               \* the value / buffer it produced
    vfail,              \* a vendor call of the last operation did not complete
    ncalls              \* number of vendor calls made by the last operation

(* SimpleDMA: the module's statics, the DMA controller's registers, the  *)
(* buffers a channel moves data between, and the application's position. *)
VARIABLES
    channel_status,               \* static volatile DMA_Status channel_status[7]
    transfer_complete_callbacks,  \* static DMA_TransferCompleteCallback ...[7]
    error_callbacks,              \* static DMA_ErrorCallback error_callbacks[7]
    chan,               \* per channel: CFGR bits and CNTR of the controller
    intfr,              \* the controller's INTFR: set of flag bits that are set
    nvic,               \* interrupt lines enabled in the interrupt controller
    periph,             \* per channel: data at the configured peripheral address
    mem,                \* per channel: data at the configured memory address
    dma_op,             \* the last public DMA_* call and its arguments
    dma_ret,            \* its return value
    wait,               \* the DMA_WaitComplete loop the application is in
    elapsed,            \* milliseconds since that loop was entered
    polled,             \* the loop has polled since the last millisecond tick
    used,               \* history: channels the application has used
    xfer,               \* history per channel: the transfer in progress, the
                        \* callback it was started with, the callbacks invoked
    irq,                \* history: the interrupt handler that ran since the
                        \* application's last call, and the callbacks it invoked
    adc_dma_active,     \* static uint8_t adc_dma_active
    adc,                \* the ADC: analog input pins and the bits of ADC1
    adc_pin             \* history: pin of the last DMA_analogReadStart since
                        \* start-up or the last DMA_analogReadStop

(* The wear-levelling example and the millisecond counter it stamps its *)
(* slots with.                                                          *)
VARIABLES
    millis,             \* volatile uint32_t millis, as <<low, high>> half-words
    wl_i                \* example_wear_leveling: 0 before the page is erased,
                        \* then the loop variable i (write #i comes next)

wearVars == <<millis, wl_i>>
flashOnly == <<flash, flash_initialized, vendor_oob, fop, fret, fout, vfail, ncalls,
               wearVars>>
flashVars == <<app, flash, flash_initialized, vendor_oob, fop, fret, fout, vfail, ncalls>>
dmaVars == <<channel_status, transfer_complete_callbacks, error_callbacks, chan, intfr,
             nvic, periph, mem, dma_op, dma_ret, wait, elapsed, polled, used, xfer, irq,
             adc_dma_active, adc, adc_pin>>
adcVars == <<adc_dma_active, adc, adc_pin>>

(* ---------- inputs ---------- *)
Bytes == {0, 90}
PageNums == {0, 253, FLASH_CONFIG_PAGE, FLASH_DATA_PAGE}
WriteAddrs == {FLASH_STORAGE_START_ADDR - 2, FLASH_CONFIG_ADDR, WindowEnd - 1, WindowEnd}
EraseWriteAddrs == {FLASH_STORAGE_START_ADDR - 2, FLASH_CONFIG_ADDR, FLASH_CONFIG_ADDR + 1}
ReadAddrs == {FLASH_STORAGE_START_ADDR - 1, FLASH_CONFIG_ADDR}
HalfWords == {0, 23130}
Words == {<<23130, 23130>>}
BaseA(i) == <<90, 0, 255>>[((i - 1) % 3) + 1]
BaseB(i) == IF i <= 2 THEN 255 ELSE IF i = 3 THEN 0 ELSE 90
Buffers == {[i \in 1 .. n |-> BaseA(i)] : n \in 0 .. MaxSize}
           \cup {[i \in 1 .. n |-> BaseB(i)] : n \in 1 .. MaxSize}
Strings == {[i \in 1 .. n |-> 90] : n \in 0 .. MaxSize - 1}
Sizes == {0, MaxSize}

Op(name, addr, val, buf) == [name |-> name, addr |-> addr, val |-> val, buf |-> buf]
NoOut == [val |-> 0, buf |-> <<>>]
BoolStr(b) == IF b THEN "true" ELSE "false"

FlashInitState ==
    /\ app = "idle"
    /\ flash = InitFlash
    /\ flash_initialized = FALSE
    /\ vendor_oob = FALSE
    /\ fop = Op("none", 0, 0, <<>>)
    /\ fret = "none"
    /\ fout = NoOut
    /\ vfail = FALSE
    /\ ncalls = 0
    /\ millis = <<0, 0>>
    /\ wl_i = 0

\* a call that may erase or program: r is the result of its function
Writes(o, r) ==
    /\ app = "idle"
    /\ app' = "returned"
    /\ fop' = o
    /\ flash' = r.c.fl
    /\ vendor_oob' = (vendor_oob \/ r.c.oob)
    /\ vfail' = r.c.vfail
    /\ ncalls' = r.c.n
    /\ fret' = r.ret
    /\ fout' = NoOut
    /\ UNCHANGED flash_initialized
    /\ UNCHANGED <<dmaVars, wearVars>>

\* a call that only reads
Reads(o, ret, out) ==
    /\ app = "idle"
    /\ app' = "returned"
    /\ fop' = o
    /\ fret' = ret
    /\ fout' = out
    /\ vfail' = FALSE
    /\ ncalls' = 0
    /\ UNCHANGED <<flash, flash_initialized, vendor_oob>>
    /\ UNCHANGED <<dmaVars, wearVars>>

Call_Flash_Init ==
    /\ app = "idle"
    /\ app' = "returned"
    /\ fop' = Op("Flash_Init", 0, 0, <<>>)
    /\ flash_initialized' = TRUE
    /\ fret' = "FLASH_OK"
    /\ fout' = NoOut
    /\ vfail' = FALSE
    /\ ncalls' = 0
    /\ UNCHANGED <<flash, vendor_oob>>
    /\ UNCHANGED <<dmaVars, wearVars>>

Call_Flash_EraseAll ==
    \E p \in FaultPlans :
        Writes(Op("Flash_EraseAll", 0, 0, <<>>), Flash_EraseAll(Ctx(flash), p))

Call_Flash_ErasePage ==
    \E page_num \in PageNums, p \in FaultPlans :
        Writes(Op("Flash_ErasePage", page_num, 0, <<>>),
               Flash_ErasePage(Ctx(flash), p, page_num))

Call_Flash_ReadByte ==
    \E addr \in ReadAddrs :
        Reads(Op("Flash_ReadByte", addr, 0, <<>>), "value",
              [val |-> Flash_ReadByte(flash, addr), buf |-> <<>>])

Call_Flash_ReadHalfWord ==
    \E addr \in ReadAddrs :
        Reads(Op("Flash_ReadHalfWord", addr, 0, <<>>), "value",
              [val |-> Flash_ReadHalfWord(flash, addr), buf |-> <<>>])

Call_Flash_ReadWord ==
    \E addr \in ReadAddrs :
        Reads(Op("Flash_ReadWord", addr, 0, <<>>), "value",
              [val |-> 0, buf |-> Flash_ReadWord(flash, addr)])

Call_Flash_WriteByte ==
    \E addr \in WriteAddrs, data \in Bytes, p \in FaultPlans :
        Writes(Op("Flash_WriteByte", addr, data, <<>>),
               Flash_WriteByte(Ctx(flash), p, addr, data))

Call_Flash_WriteHalfWord ==
    \E addr \in WriteAddrs, data \in HalfWords, p \in FaultPlans :
        Writes(Op("Flash_WriteHalfWord", addr, data, <<>>),
               Flash_WriteHalfWord(Ctx(flash), p, addr, data))

Call_Flash_WriteWord ==
    \E addr \in WriteAddrs, data \in Words, p \in FaultPlans :
        Writes(Op("Flash_WriteWord", addr, 0, data),
               Flash_WriteWord(Ctx(flash), p, addr, data))

Call_Flash_ReadString ==
    \E addr \in ReadAddrs, max_len \in Sizes :
        LET r == Flash_ReadString(flash, addr, max_len)
        IN  Reads(Op("Flash_ReadString", addr, max_len, <<>>), "value",
                  [val |-> r.len, buf |-> r.buffer])

Call_Flash_WriteString ==
    \E addr \in WriteAddrs, str \in Strings, p \in FaultPlans :
        Writes(Op("Flash_WriteString", addr, 0, str),
               Flash_WriteString(Ctx(flash), p, addr, str))

Call_Flash_ReadStruct ==
    \E addr \in ReadAddrs, size \in Sizes :
        LET r == Flash_ReadStruct(flash, addr, size)
        IN  Reads(Op("Flash_ReadStruct", addr, size, <<>>), r.ret,
                  [val |-> 0, buf |-> r.buffer])

Call_Flash_WriteStruct ==
    \E addr \in WriteAddrs, src \in Buffers, p \in FaultPlans :
        Writes(Op("Flash_WriteStruct", addr, Len(src), src),
               Flash_WriteStruct(Ctx(flash), p, addr, src, Len(src)))

Call_Flash_SaveConfig ==
    \E src \in Buffers, p \in FaultPlans :
        Writes(Op("Flash_SaveConfig", 0, Len(src), src),
               Flash_SaveConfig(Ctx(flash), p, src, Len(src)))

Call_Flash_LoadConfig ==
    \E size \in 0 .. MaxSize :
        LET r == Flash_LoadConfig(flash, size)
        IN  Reads(Op("Flash_LoadConfig", 0, size, <<>>), BoolStr(r.ok),
                  [val |-> 0, buf |-> r.buffer])

Call_Flash_IsConfigValid ==
    Reads(Op("Flash_IsConfigValid", 0, 0, <<>>),
          BoolStr(Flash_IsConfigValid(flash)), NoOut)

Call_Flash_CalculateCRC16 ==
    \E data \in {b \in Buffers : Len(b) \in Sizes} :
        Reads(Op("Flash_CalculateCRC16", 0, Len(data), data), "value",
              [val |-> Flash_CalculateCRC16(data, Len(data)), buf |-> <<>>])

Call_Flash_IsAddressValid ==
    \E addr \in ReadAddrs :
        Reads(Op("Flash_IsAddressValid", addr, 0, <<>>),
              BoolStr(Flash_IsAddressValid(addr)), NoOut)

Call_Flash_GetPageAddress ==
    \E page_num \in PageNums :
        Reads(Op("Flash_GetPageAddress", page_num, 0, <<>>), "value",
              [val |-> Flash_GetPageAddress(page_num), buf |-> <<>>])

Call_Flash_WriteByteWithErase ==
    \E addr \in EraseWriteAddrs, data \in Bytes, p \in FaultPlans :
        Writes(Op("Flash_WriteByteWithErase", addr, data, <<>>),
               Flash_WriteByteWithErase(Ctx(flash), p, addr, data))

Call_Flash_WriteHalfWordWithErase ==
    \E addr \in EraseWriteAddrs, data \in {23130}, p \in FaultPlans :
        Writes(Op("Flash_WriteHalfWordWithErase", addr, data, <<>>),
               Flash_WriteHalfWordWithErase(Ctx(flash), p, addr, data))

Call_Flash_WriteWordWithErase ==
    \E addr \in EraseWriteAddrs, data \in {<<23130, 23130>>}, p \in FaultPlans :
        Writes(Op("Flash_WriteWordWithErase", addr, 0, data),
               Flash_WriteWordWithErase(Ctx(flash), p, addr, data))

\* the application has used the return value and goes on
App_Continue ==
    /\ app = "returned"
    /\ app' = "idle"
    /\ fop' = Op("none", 0, 0, <<>>)
    /\ fret' = "none"
    /\ fout' = NoOut
    /\ vfail' = FALSE
    /\ ncalls' = 0
    /\ UNCHANGED <<flash, flash_initialized, vendor_oob>>
    /\ UNCHANGED <<dmaVars, wearVars>>

FlashNext ==
    \/ App_Continue
    \/ Call_Flash_Init
    \/ Call_Flash_EraseAll
    \/ Call_Flash_ErasePage
    \/ Call_Flash_ReadByte
    \/ Call_Flash_ReadHalfWord
    \/ Call_Flash_ReadWord
    \/ Call_Flash_WriteByte
    \/ Call_Flash_WriteHalfWord
    \/ Call_Flash_WriteWord
    \/ Call_Flash_ReadString
    \/ Call_Flash_WriteString
    \/ Call_Flash_ReadStruct
    \/ Call_Flash_WriteStruct
    \/ Call_Flash_SaveConfig
    \/ Call_Flash_LoadConfig
    \/ Call_Flash_IsConfigValid
    \/ Call_Flash_CalculateCRC16
    \/ Call_Flash_IsAddressValid
    \/ Call_Flash_GetPageAddress
    \/ Call_Flash_WriteByteWithErase
    \/ Call_Flash_WriteHalfWordWithErase
    \/ Call_Flash_WriteWordWithErase

(* =============================== SimpleDMA =============================== *)
(* The DMA controller is hardware and its driver (DMA_Init, DMA_Cmd, ...)   *)
(* is the vendor's: both are the environment of SimpleDMA.c.  A channel has *)
(* the CFGR bits EN, TCIE, TEIE, the direction and increment bits and the   *)
(* counter CNTR; INTFR holds four flag bits per channel.  Addresses are     *)
(* modelled by the data that lies there.                                    *)
MaxTransfer == 2        \* longest transfer, in data items
MaxElapsed == 2         \* milliseconds counted inside one DMA_WaitComplete
MaxChannelsUsed == 1    \* channels the application uses in one run

DMA_CH1 == 1
DMA_CH2 == 2
DMA_CH3 == 3
DMA_CH4 == 4
DMA_CH5 == 5
DMA_CH6 == 6
DMA_CH7 == 7
DMA_Channels == DMA_CH1 .. DMA_CH7

\* bit positions in INTFR of channel 1's flags; channel n's are 4 * (n - 1) higher
DMA1_FLAG_GL1 == 0
DMA1_FLAG_TC1 == 1
DMA1_FLAG_TE1 == 3
DMA1_IT_TC(n) == DMA1_FLAG_TC1 + 4 * (n - 1)
DMA1_IT_TE(n) == DMA1_FLAG_TE1 + 4 * (n - 1)

\* the callbacks an application defines
on_transfer_complete == "on_transfer_complete"
on_transfer_error == "on_transfer_error"

\* the program's DMA state, threaded through the functions below
DMAState ==
    [channel_status |-> channel_status,
     transfer_complete_callbacks |-> transfer_complete_callbacks,
     error_callbacks |-> error_callbacks,
     chan |-> chan, intfr |-> intfr, nvic |-> nvic, periph |-> periph, mem |-> mem]

(* ---------- vendor driver ---------- *)
DMA_Cmd(D, dma_ch, NewState) == [D EXCEPT !.chan[dma_ch].en = NewState]

\* writing a channel's global clear bit clears all four of its flags
DMA_ClearFlag(D, flag) ==
    [D EXCEPT !.intfr = @ \ (IF flag % 4 = DMA1_FLAG_GL1 THEN flag .. (flag + 3) ELSE {flag})]

DMA_GetFlagStatus(D, flag) == flag \in D.intfr
DMA_GetITStatus(D, it) == it \in D.intfr
DMA_ClearITPendingBit(D, it) == DMA_ClearFlag(D, it)

DMA_ITConfig(D, dma_ch, it, NewState) ==
    IF it = "DMA_IT_TC" THEN [D EXCEPT !.chan[dma_ch].tcie = NewState]
    ELSE [D EXCEPT !.chan[dma_ch].teie = NewState]

NVIC_EnableIRQ(D, irqn) == [D EXCEPT !.nvic = @ \cup {irqn}]
NVIC_DisableIRQ(D, irqn) == [D EXCEPT !.nvic = @ \ {irqn}]
DMA_GetCurrDataCounter(D, dma_ch) == D.chan[dma_ch].cntr

\* DMA_Init rewrites the configuration bits of CFGR and the counter and
\* addresses; it keeps EN and the interrupt enable bits
DMA_Init(D, dma_ch, init) ==
    [D EXCEPT !.chan[dma_ch] = [en |-> @.en, tcie |-> @.tcie, teie |-> @.teie,
                                dir |-> init.DMA_DIR, m2m |-> init.DMA_M2M,
                                circ |-> init.DMA_Mode = "DMA_Mode_Circular",
                                pinc |-> init.DMA_PeripheralInc,
                                minc |-> init.DMA_MemoryInc,
                                size |-> init.DMA_BufferSize,
                                cntr |-> init.DMA_BufferSize],
               !.periph[dma_ch] = init.DMA_PeripheralBaseAddr,
               !.mem[dma_ch] = init.DMA_MemoryBaseAddr]

(* ---------- SimpleDMA.c ---------- *)
get_channel_base(channel) == IF channel \in DMA_Channels THEN channel ELSE DMA_CH1
get_channel_irqn(channel) == IF channel \in DMA_Channels THEN channel ELSE DMA_CH1

DMA_Reset(D, channel) ==
    LET dma_ch == get_channel_base(channel)
        flag_base == (channel - 1) * 4
        d1 == DMA_Cmd(D, dma_ch, FALSE)
        d2 == DMA_ClearFlag(d1, DMA1_FLAG_GL1 + flag_base)
    IN  [d2 EXCEPT !.channel_status[channel] = "DMA_STATUS_IDLE"]

DMA_SimpleInit(D, config) ==
    LET d1 == DMA_Reset(D, config.channel)
        dma_ch == get_channel_base(config.channel)
        init == [DMA_PeripheralBaseAddr |-> config.periph_addr,
                 DMA_MemoryBaseAddr |-> config.mem_addr,
                 DMA_DIR |-> IF config.direction = "DMA_DIR_MEM_TO_PERIPH"
                             THEN "DMA_DIR_PeripheralDST" ELSE "DMA_DIR_PeripheralSRC",
                 DMA_M2M |-> config.direction = "DMA_DIR_MEM_TO_MEM",
                 DMA_BufferSize |-> config.buffer_size,
                 DMA_PeripheralInc |-> config.periph_increment # 0,
                 DMA_MemoryInc |-> config.mem_increment # 0,
                 DMA_Mode |-> IF config.mode = "DMA_MODE_CIRCULAR"
                              THEN "DMA_Mode_Circular" ELSE "DMA_Mode_Normal"]
        d2 == DMA_Init(d1, dma_ch, init)
    IN  [d2 EXCEPT !.channel_status[config.channel] = "DMA_STATUS_IDLE"]

DMA_Start(D, channel) ==
    LET dma_ch == get_channel_base(channel)
        flag_base == (channel - 1) * 4
        d1 == DMA_ClearFlag(D, DMA1_FLAG_TC1 + flag_base)
        d2 == DMA_ClearFlag(d1, DMA1_FLAG_TE1 + flag_base)
        d3 == [d2 EXCEPT !.channel_status[channel] = "DMA_STATUS_BUSY"]
    IN  DMA_Cmd(d3, dma_ch, TRUE)

DMA_Stop(D, channel) ==
    LET dma_ch == get_channel_base(channel)
        d1 == DMA_Cmd(D, dma_ch, FALSE)
    IN  [d1 EXCEPT !.channel_status[channel] = "DMA_STATUS_IDLE"]

\* a DMA_GetStatus that never looks at the transfer-complete flag
DMA_GetStatus_NoTC(D, channel) ==
    LET flag_base == (channel - 1) * 4
        d2 == IF DMA_GetFlagStatus(D, DMA1_FLAG_TE1 + flag_base)
              THEN [D EXCEPT !.channel_status[channel] = "DMA_STATUS_ERROR"] ELSE D
    IN  [D |-> d2, ret |-> d2.channel_status[channel]]

DMA_GetStatus(D, channel) ==
    LET flag_base == (channel - 1) * 4
        d1 == IF DMA_GetFlagStatus(D, DMA1_FLAG_TC1 + flag_base)
              THEN [D EXCEPT !.channel_status[channel] = "DMA_STATUS_COMPLETE"] ELSE D
        d2 == IF DMA_GetFlagStatus(d1, DMA1_FLAG_TE1 + flag_base)
              THEN [d1 EXCEPT !.channel_status[channel] = "DMA_STATUS_ERROR"] ELSE d1
    IN  [D |-> d2, ret |-> d2.channel_status[channel]]

\* a registration that forgets to enable the transfer-complete interrupt
DMA_SetTransferCompleteCallback_NoIT(D, channel, callback) ==
    LET d1 == [D EXCEPT !.transfer_complete_callbacks[channel] = callback]
    IN  NVIC_EnableIRQ(d1, get_channel_irqn(channel))

DMA_SetTransferCompleteCallback(D, channel, callback) ==
    LET d1 == [D EXCEPT !.transfer_complete_callbacks[channel] = callback]
        d2 == DMA_ITConfig(d1, get_channel_base(channel), "DMA_IT_TC", TRUE)
    IN  NVIC_EnableIRQ(d2, get_channel_irqn(channel))

DMA_SetErrorCallback(D, channel, callback) ==
    LET d1 == [D EXCEPT !.error_callbacks[channel] = callback]
        d2 == DMA_ITConfig(d1, get_channel_base(channel), "DMA_IT_TE", TRUE)
    IN  NVIC_EnableIRQ(d2, get_channel_irqn(channel))

DMA_EnableInterrupt(D, channel, enable) ==
    LET irqn == get_channel_irqn(channel)
    IN  IF enable # 0 THEN NVIC_EnableIRQ(D, irqn) ELSE NVIC_DisableIRQ(D, irqn)

DMA_GetRemainingCount(D, channel) == DMA_GetCurrDataCounter(D, get_channel_base(channel))

\* the configuration the three memory functions build
MemConfig(channel, dst, src, size, periph_increment) ==
    [channel |-> channel, direction |-> "DMA_DIR_MEM_TO_MEM", mode |-> "DMA_MODE_NORMAL",
     mem_increment |-> 1, periph_increment |-> periph_increment,
     periph_addr |-> src, mem_addr |-> dst, buffer_size |-> size]

\* DMA_MemCopy and DMA_MemSet up to their call of DMA_WaitComplete(DMA_CH1, 0)
DMA_MemCopy_Begin(D, dst, src, size) ==
    DMA_Start(DMA_SimpleInit(D, MemConfig(DMA_CH1, dst, src, size, 1)), DMA_CH1)

DMA_MemSet_Begin(D, dst, value, size) ==
    DMA_Start(DMA_SimpleInit(D, MemConfig(DMA_CH1, dst, <<value>>, size, 0)), DMA_CH1)

DMA_MemCopyAsync(D, channel, dst, src, size) ==
    DMA_Start(DMA_SimpleInit(D, MemConfig(channel, dst, src, size, 1)), channel)

(* ---------- SimpleDMA state machine ---------- *)
\* a channel's registers after reset
ResetChannel ==
    [en |-> FALSE, tcie |-> FALSE, teie |-> FALSE, dir |-> "DMA_DIR_PeripheralSRC",
     m2m |-> FALSE, circ |-> FALSE, pinc |-> FALSE, minc |-> FALSE, size |-> 0, cntr |-> 0]

\* history of a channel: kind is the transfer in progress ("async" is one begun
\* by DMA_MemCopyAsync, "async_tc" / "async_te" the same after the hardware has
\* signalled transfer-complete / transfer-error), cb the callback last passed
\* to DMA_SetTransferCompleteCallback, armed whether that registration came
\* before the transfer began, tc_calls / tc_fn / tc_arg the transfer-complete
\* callbacks invoked since the transfer began
NoTransfer ==
    [kind |-> "none", cb |-> "NULL", armed |-> FALSE,
     tc_calls |-> 0, tc_fn |-> "NULL", tc_arg |-> 0]

DMAOp(name, channel, arg, seen) ==
    [name |-> name, channel |-> channel, arg |-> arg, seen |-> seen]
NoDMAOp == DMAOp("none", 0, 0, "none")
DMARet(ret, val) == [ret |-> ret, val |-> val]
NoDMARet == DMARet("none", 0)
NoWait == [channel |-> 0, timeout_ms |-> 0, fn |-> "none"]
\* no handler has run; calls lists <<flag, callback, argument>> per invocation
NoIrq == [line |-> 0, calls |-> <<>>]

\* ADC1 and the analog inputs after reset: ain the ADC channels whose pin is
\* an analog input, en ADC_Cmd, cont continuous conversion, ch the channel of
\* rank 1, dma ADC_DMACmd, conv a software-started conversion is running
ResetADC ==
    [ain |-> {}, en |-> FALSE, cont |-> FALSE, ch |-> 0, dma |-> FALSE, conv |-> FALSE]

DMAInitState ==
    /\ channel_status = [ch \in DMA_Channels |-> "DMA_STATUS_IDLE"]
    /\ transfer_complete_callbacks = [ch \in DMA_Channels |-> "NULL"]
    /\ error_callbacks = [ch \in DMA_Channels |-> "NULL"]
    /\ chan = [ch \in DMA_Channels |-> ResetChannel]
    /\ intfr = {}
    /\ nvic = {}
    /\ periph = [ch \in DMA_Channels |-> <<>>]
    /\ mem = [ch \in DMA_Channels |-> <<>>]
    /\ dma_op = NoDMAOp
    /\ dma_ret = NoDMARet
    /\ wait = NoWait
    /\ elapsed = 0
    /\ polled = FALSE
    /\ used = {}
    /\ xfer = [ch \in DMA_Channels |-> NoTransfer]
    /\ irq = NoIrq
    /\ adc_dma_active = 0
    /\ adc = ResetADC
    /\ adc_pin = {}

(* ---------- inputs ---------- *)
TransferSizes == 0 .. MaxTransfer
SourceData(size) == [i \in 1 .. size |-> 10 + i]
Zeros(size) == [i \in 1 .. size |-> 0]
FillValues == {90}
Timeouts == {0, 1}
CompleteCallbacks == {"NULL", on_transfer_complete}
ErrorCallbacks == {"NULL", on_transfer_error}
PeriphModes == {<<"DMA_DIR_PERIPH_TO_MEM", "DMA_MODE_CIRCULAR">>,
                <<"DMA_DIR_MEM_TO_PERIPH", "DMA_MODE_NORMAL">>}
Configs ==
    {[channel |-> ch, direction |-> dm[1], mode |-> dm[2],
      mem_increment |-> 1, periph_increment |-> 0,
      periph_addr |-> <<7>>, mem_addr |-> Zeros(MaxTransfer),
      buffer_size |-> MaxTransfer] : ch \in DMA_Channels, dm \in PeriphModes}

(* ---------- interrupts ---------- *)
\* the controller raises channel n's interrupt line while a flag of the
\* channel and its enable bit are both set
IrqPending(n) ==
    /\ n \in nvic
    /\ \/ DMA1_IT_TC(n) \in intfr /\ chan[n].tcie
       \/ DMA1_IT_TE(n) \in intfr /\ chan[n].teie

\* the main program runs only while no enabled interrupt is pending
MainRuns == \A n \in DMA_Channels : ~IrqPending(n)

CanUse(channel) == channel \in used \/ Cardinality(used) < MaxChannelsUsed

SetDMAState(D) ==
    /\ channel_status' = D.channel_status
    /\ transfer_complete_callbacks' = D.transfer_complete_callbacks
    /\ error_callbacks' = D.error_callbacks
    /\ chan' = D.chan
    /\ intfr' = D.intfr
    /\ nvic' = D.nvic
    /\ periph' = D.periph
    /\ mem' = D.mem

Forget(channel) ==
    [xfer EXCEPT ![channel] = [NoTransfer EXCEPT !.cb = xfer[channel].cb]]
Begun(channel, kind) ==
    [xfer EXCEPT ![channel] = [NoTransfer EXCEPT !.kind = kind, !.cb = xfer[channel].cb,
                                                 !.armed = xfer[channel].cb # "NULL"]]

\* a public call that returns without waiting; the application goes on at
\* once after a call that returns nothing
DMACall(o, r, D, x) ==
    /\ app = "idle"
    /\ MainRuns
    /\ CanUse(o.channel)
    /\ app' = IF r.ret = "void" THEN "idle" ELSE "returned"
    /\ dma_op' = IF r.ret = "void" THEN NoDMAOp ELSE o
    /\ dma_ret' = IF r.ret = "void" THEN NoDMARet ELSE r
    /\ SetDMAState(D)
    /\ xfer' = x
    /\ used' = used \cup {o.channel}
    /\ irq' = NoIrq
    /\ UNCHANGED <<wait, elapsed, polled>>
    /\ UNCHANGED <<flashOnly, adcVars>>

\* a public call that enters the loop of DMA_WaitComplete
DMAWait(o, D, x) ==
    /\ app = "idle"
    /\ MainRuns
    /\ CanUse(o.channel)
    /\ app' = "waiting"
    /\ dma_op' = o
    /\ dma_ret' = NoDMARet
    /\ wait' = [channel |-> o.channel, timeout_ms |-> o.arg, fn |-> o.name]
    /\ elapsed' = 0
    /\ polled' = FALSE
    /\ SetDMAState(D)
    /\ xfer' = x
    /\ used' = used \cup {o.channel}
    /\ irq' = NoIrq
    /\ UNCHANGED <<flashOnly, adcVars>>

Call_DMA_SimpleInit ==
    \E config \in Configs :
        DMACall(DMAOp("DMA_SimpleInit", config.channel, config.buffer_size, "none"),
                DMARet("void", 0), DMA_SimpleInit(DMAState, config), Forget(config.channel))

Call_DMA_Start ==
    \E channel \in DMA_Channels :
        DMACall(DMAOp("DMA_Start", channel, 0, "none"), DMARet("void", 0),
                DMA_Start(DMAState, channel), Begun(channel, "started"))

Call_DMA_Stop ==
    \E channel \in DMA_Channels :
        DMACall(DMAOp("DMA_Stop", channel, 0, "none"), DMARet("void", 0),
                DMA_Stop(DMAState, channel), Forget(channel))

Call_DMA_GetStatus ==
    \E channel \in DMA_Channels :
        LET r == DMA_GetStatus(DMAState, channel)
        IN  DMACall(DMAOp("DMA_GetStatus", channel, 0, xfer[channel].kind),
                    DMARet(r.ret, 0), r.D, xfer)

Call_DMA_WaitComplete ==
    \E channel \in DMA_Channels, timeout_ms \in Timeouts :
        DMAWait(DMAOp("DMA_WaitComplete", channel, timeout_ms, "none"), DMAState, xfer)

Call_DMA_SetTransferCompleteCallback ==
    \E channel \in DMA_Channels, callback \in CompleteCallbacks :
        DMACall(DMAOp("DMA_SetTransferCompleteCallback", channel, 0, "none"),
                DMARet("void", 0),
                DMA_SetTransferCompleteCallback(DMAState, channel, callback),
                [xfer EXCEPT ![channel].cb = callback, ![channel].armed = FALSE])

Call_DMA_SetErrorCallback ==
    \E channel \in DMA_Channels, callback \in ErrorCallbacks :
        DMACall(DMAOp("DMA_SetErrorCallback", channel, 0, "none"), DMARet("void", 0),
                DMA_SetErrorCallback(DMAState, channel, callback), xfer)

Call_DMA_Reset ==
    \E channel \in DMA_Channels :
        DMACall(DMAOp("DMA_Reset", channel, 0, "none"), DMARet("void", 0),
                DMA_Reset(DMAState, channel), Forget(channel))

Call_DMA_GetRemainingCount ==
    \E channel \in DMA_Channels :
        DMACall(DMAOp("DMA_GetRemainingCount", channel, 0, "none"),
                DMARet("value", DMA_GetRemainingCount(DMAState, channel)), DMAState, xfer)

Call_DMA_EnableInterrupt ==
    \E channel \in DMA_Channels, enable \in {0, 1} :
        DMACall(DMAOp("DMA_EnableInterrupt", channel, enable, "none"), DMARet("void", 0),
                DMA_EnableInterrupt(DMAState, channel, enable), xfer)

Call_DMA_MemCopy ==
    \E size \in TransferSizes :
        DMAWait(DMAOp("DMA_MemCopy", DMA_CH1, 0, "none"),
                DMA_MemCopy_Begin(DMAState, Zeros(size), SourceData(size), size),
                Begun(DMA_CH1, "copy"))

Call_DMA_MemCopyAsync ==
    \E channel \in DMA_Channels, size \in TransferSizes :
        DMACall(DMAOp("DMA_MemCopyAsync", channel, size, "none"), DMARet("void", 0),
                DMA_MemCopyAsync(DMAState, channel, Zeros(size), SourceData(size), size),
                Begun(channel, "async"))

Call_DMA_MemSet ==
    \E value \in FillValues, size \in TransferSizes :
        DMAWait(DMAOp("DMA_MemSet", DMA_CH1, 0, "none"),
                DMA_MemSet_Begin(DMAState, Zeros(size), value, size),
                Begun(DMA_CH1, "set"))

\* one iteration of the loop of DMA_WaitComplete: it returns 1 on COMPLETE,
\* 0 on ERROR, and goes round again otherwise, whatever timeout_ms is
DMA_WaitComplete_Poll ==
    /\ app = "waiting"
    /\ MainRuns
    /\ LET r == DMA_GetStatus(DMAState, wait.channel)
           void == wait.fn # "DMA_WaitComplete"
       IN  /\ SetDMAState(r.D)
           /\ IF r.ret = "DMA_STATUS_COMPLETE"
              THEN /\ app' = "returned"
                   /\ dma_ret' = DMARet(IF void THEN "void" ELSE "1", 0)
                   /\ wait' = NoWait
                   /\ polled' = FALSE
              ELSE IF r.ret = "DMA_STATUS_ERROR"
              THEN /\ app' = "returned"
                   /\ dma_ret' = DMARet(IF void THEN "void" ELSE "0", 0)
                   /\ wait' = NoWait
                   /\ polled' = FALSE
              ELSE /\ polled' = TRUE
                   /\ UNCHANGED <<app, dma_ret, wait>>
    /\ UNCHANGED <<dma_op, elapsed, used, xfer, irq>>
    /\ UNCHANGED <<flashOnly, adcVars>>

\* the application has used the return value and goes on
DMA_Continue ==
    /\ app = "returned"
    /\ dma_op # NoDMAOp
    /\ app' = "idle"
    /\ dma_op' = NoDMAOp
    /\ dma_ret' = NoDMARet
    /\ elapsed' = 0
    /\ UNCHANGED <<channel_status, transfer_complete_callbacks, error_callbacks, chan,
                   intfr, nvic, periph, mem, wait, polled, used, xfer, irq>>
    /\ UNCHANGED <<flashOnly, adcVars>>

\* a millisecond passes while the application is in the loop with a timeout
Tick ==
    /\ app = "waiting"
    /\ wait.timeout_ms > 0
    /\ polled
    /\ elapsed < MaxElapsed
    /\ elapsed' = elapsed + 1
    /\ polled' = FALSE
    /\ UNCHANGED <<app, channel_status, transfer_complete_callbacks, error_callbacks, chan,
                   intfr, nvic, periph, mem, dma_op, dma_ret, wait, used, xfer, irq>>
    /\ UNCHANGED <<flashOnly, adcVars>>

(* ---------- the DMA controller ---------- *)
\* an enabled channel with a non-zero counter moves one data item; with the
\* last item it sets the channel's transfer-complete flag, and in circular
\* mode reloads the counter
HW_Transfer ==
    \E n \in DMA_Channels :
        LET c == chan[n]
            i == c.size - c.cntr + 1
            pi == IF c.pinc THEN i ELSE 1
            mi == IF c.minc THEN i ELSE 1
            last == c.cntr = 1
        IN  /\ c.en
            /\ c.cntr > 0
            /\ chan' = [chan EXCEPT ![n].cntr = IF last THEN (IF c.circ THEN c.size ELSE 0)
                                                ELSE c.cntr - 1]
            /\ IF c.dir = "DMA_DIR_PeripheralSRC"
               THEN /\ mem' = [mem EXCEPT ![n][mi] = periph[n][pi]]
                    /\ UNCHANGED periph
               ELSE /\ periph' = [periph EXCEPT ![n][pi] = mem[n][mi]]
                    /\ UNCHANGED mem
            /\ intfr' = IF last THEN intfr \cup {DMA1_IT_TC(n)} ELSE intfr
            /\ xfer' = IF last /\ xfer[n].kind = "async"
                       THEN [xfer EXCEPT ![n].kind = "async_tc"] ELSE xfer
            /\ UNCHANGED <<app, channel_status, transfer_complete_callbacks, error_callbacks,
                           nvic, dma_op, dma_ret, wait, elapsed, polled, used, irq>>
            /\ UNCHANGED <<flashOnly, adcVars>>

\* a bus error on an access of the channel: the controller sets the channel's
\* transfer-error flag and disables the channel
HW_TransferError ==
    \E n \in DMA_Channels :
        /\ chan[n].en
        /\ chan[n].cntr > 0
        /\ chan' = [chan EXCEPT ![n].en = FALSE]
        /\ intfr' = intfr \cup {DMA1_IT_TE(n)}
        /\ xfer' = IF xfer[n].kind = "async"
                   THEN [xfer EXCEPT ![n].kind = "async_te"] ELSE xfer
        /\ UNCHANGED <<app, channel_status, transfer_complete_callbacks, error_callbacks,
                       nvic, periph, mem, dma_op, dma_ret, wait, elapsed, polled, used, irq>>
        /\ UNCHANGED <<flashOnly, adcVars>>

(* ---------- interrupt handlers ---------- *)
\* the body the seven handlers share: line is the interrupt line the handler
\* serves, it_tc and it_te the flags it tests, i the index into the statics
\* (one more than the C index), arg the channel it passes to the callbacks
ChannelIRQHandler(line, it_tc, it_te, i, arg) ==
    LET D0 == DMAState
        tc == DMA_GetITStatus(D0, it_tc)
        d1 == IF tc THEN [DMA_ClearITPendingBit(D0, it_tc)
                            EXCEPT !.channel_status[i] = "DMA_STATUS_COMPLETE"]
              ELSE D0
        te == DMA_GetITStatus(d1, it_te)
        d2 == IF te THEN [DMA_ClearITPendingBit(d1, it_te)
                            EXCEPT !.channel_status[i] = "DMA_STATUS_ERROR"]
              ELSE d1
        tc_call == tc /\ transfer_complete_callbacks[i] # "NULL"
        te_call == te /\ error_callbacks[i] # "NULL"
        calls == (IF tc_call THEN << <<"TC", transfer_complete_callbacks[i], arg>> >>
                  ELSE <<>>)
                 \o (IF te_call THEN << <<"TE", error_callbacks[i], arg>> >> ELSE <<>>)
    IN  /\ IrqPending(line)
        /\ SetDMAState(d2)
        /\ irq' = [line |-> line, calls |-> calls]
        /\ xfer' = IF tc_call
                   THEN [xfer EXCEPT ![line].tc_calls = IF @ < 2 THEN @ + 1 ELSE @,
                                     ![line].tc_fn = transfer_complete_callbacks[i],
                                     ![line].tc_arg = arg]
                   ELSE xfer
        /\ UNCHANGED <<app, dma_op, dma_ret, wait, elapsed, polled, used>>
        /\ UNCHANGED <<flashOnly, adcVars>>

DMA1_Channel1_IRQHandler ==
    ChannelIRQHandler(1, DMA1_IT_TC(1), DMA1_IT_TE(1), 0 + 1, DMA_CH1)
\* channel 2's handler with channel 1's index left in the subscripts
DMA1_Channel2_IRQHandler_Index0 ==
    ChannelIRQHandler(2, DMA1_IT_TC(2), DMA1_IT_TE(2), 0 + 1, DMA_CH2)
DMA1_Channel2_IRQHandler ==
    ChannelIRQHandler(2, DMA1_IT_TC(2), DMA1_IT_TE(2), 1 + 1, DMA_CH2)
DMA1_Channel3_IRQHandler ==
    ChannelIRQHandler(3, DMA1_IT_TC(3), DMA1_IT_TE(3), 2 + 1, DMA_CH3)
DMA1_Channel4_IRQHandler ==
    ChannelIRQHandler(4, DMA1_IT_TC(4), DMA1_IT_TE(4), 3 + 1, DMA_CH4)
DMA1_Channel5_IRQHandler ==
    ChannelIRQHandler(5, DMA1_IT_TC(5), DMA1_IT_TE(5), 4 + 1, DMA_CH5)
DMA1_Channel6_IRQHandler ==
    ChannelIRQHandler(6, DMA1_IT_TC(6), DMA1_IT_TE(6), 5 + 1, DMA_CH6)
DMA1_Channel7_IRQHandler ==
    ChannelIRQHandler(7, DMA1_IT_TC(7), DMA1_IT_TE(7), 6 + 1, DMA_CH7)

DMANext ==
    \/ DMA_Continue
    \/ Call_DMA_SimpleInit
    \/ Call_DMA_Start
    \/ Call_DMA_Stop
    \/ Call_DMA_GetStatus
    \/ Call_DMA_WaitComplete
    \/ DMA_WaitComplete_Poll
    \/ Call_DMA_SetTransferCompleteCallback
    \/ Call_DMA_SetErrorCallback
    \/ Call_DMA_Reset
    \/ Call_DMA_GetRemainingCount
    \/ Call_DMA_EnableInterrupt
    \/ Call_DMA_MemCopy
    \/ Call_DMA_MemCopyAsync
    \/ Call_DMA_MemSet
    \/ Tick
    \/ HW_Transfer
    \/ HW_TransferError
    \/ DMA1_Channel1_IRQHandler
    \/ DMA1_Channel2_IRQHandler
    \/ DMA1_Channel3_IRQHandler
    \/ DMA1_Channel4_IRQHandler
    \/ DMA1_Channel5_IRQHandler
    \/ DMA1_Channel6_IRQHandler
    \/ DMA1_Channel7_IRQHandler

(* ---------- several channels at once ---------- *)
(* An application that, like Examples/DMA/08_MultiChannel.c, registers a   *)
(* callback per channel and starts asynchronous copies on more than one    *)
(* channel before any of them has finished.                                *)
MaxConcurrent == 2      \* channels such an application uses at once

on_ch1_complete == "on_ch1_complete"
on_ch2_complete == "on_ch2_complete"
ChannelCallbacks == {on_ch1_complete, on_ch2_complete}

\* a call of main that returns nothing; main goes on at once
MainCall(channel, D, x) ==
    /\ app = "idle"
    /\ MainRuns
    /\ Cardinality(used \cup {channel}) <= MaxConcurrent
    /\ SetDMAState(D)
    /\ xfer' = x
    /\ used' = used \cup {channel}
    /\ irq' = NoIrq
    /\ UNCHANGED <<app, dma_op, dma_ret, wait, elapsed, polled>>
    /\ UNCHANGED <<flashOnly, adcVars>>

Main_SetTransferCompleteCallback ==
    \E channel \in DMA_Channels, callback \in ChannelCallbacks :
        MainCall(channel, DMA_SetTransferCompleteCallback(DMAState, channel, callback),
                 [xfer EXCEPT ![channel].cb = callback, ![channel].armed = FALSE])

Main_SetErrorCallback ==
    \E channel \in DMA_Channels :
        MainCall(channel, DMA_SetErrorCallback(DMAState, channel, on_transfer_error), xfer)

Main_MemCopyAsync ==
    \E channel \in DMA_Channels :
        MainCall(channel,
                 DMA_MemCopyAsync(DMAState, channel, Zeros(MaxTransfer),
                                  SourceData(MaxTransfer), MaxTransfer),
                 Begun(channel, "async"))

MultiChannelNext ==
    \/ Main_SetTransferCompleteCallback
    \/ Main_SetErrorCallback
    \/ Main_MemCopyAsync
    \/ HW_Transfer
    \/ HW_TransferError
    \/ DMA1_Channel1_IRQHandler
    \/ DMA1_Channel2_IRQHandler
    \/ DMA1_Channel3_IRQHandler
    \/ DMA1_Channel4_IRQHandler
    \/ DMA1_Channel5_IRQHandler
    \/ DMA1_Channel6_IRQHandler
    \/ DMA1_Channel7_IRQHandler


(* ---------- analogRead with DMA ---------- *)
(* DMA_analogReadStart and its companions, with the ADC driver of the      *)
(* vendor and ADC_EnableChannel of SimpleADC.c reduced to the bits of adc. *)
PA1 == 0
PA2 == 1
PC0 == 10
PC1 == 11
PC2 == 12
PC3 == 13
PC4 == 14
PC5 == 15
PC6 == 16
PC7 == 17
PD2 == 20
PD3 == 21
PD4 == 22
PD5 == 23
PD6 == 24
PD7 == 25
GPIO_Pin == {PA1, PA2, PC0, PC1, PC2, PC3, PC4, PC5, PC6, PC7, PD2, PD3, PD4, PD5, PD6, PD7}
IS_ADC_PIN(pin) == pin = PA1 \/ pin = PA2 \/ pin = PC4 \/ (pin >= PD2 /\ pin <= PD6)

adc_dma_channel == DMA_CH1

\* the case labels of the switch in DMA_analogReadStart, and the ADC channel
\* each of them selects
SwitchLabels == {\h12, \h11, \h24, \h32, \h33, \h35, \h36, \h34}
adc_ch(pin) ==
    CASE pin = \h12 -> 0
      [] pin = \h11 -> 1
      [] pin = \h24 -> 2
      [] pin = \h32 -> 3
      [] pin = \h33 -> 4
      [] pin = \h35 -> 5
      [] pin = \h36 -> 6
      [] pin = \h34 -> 7

AnalogState == [D |-> DMAState, adc |-> adc, adc_dma_active |-> adc_dma_active]

DMA_ADC_Init(S, channel, buffer, buffer_size, circular) ==
    LET config == [channel |-> channel, direction |-> "DMA_DIR_PERIPH_TO_MEM",
                   mode |-> IF circular # 0 THEN "DMA_MODE_CIRCULAR" ELSE "DMA_MODE_NORMAL",
                   mem_increment |-> 1, periph_increment |-> 0,
                   periph_addr |-> <<S.adc.ch + 100>>, mem_addr |-> buffer,
                   buffer_size |-> buffer_size]
    IN  [S EXCEPT !.D = DMA_SimpleInit(S.D, config), !.adc.dma = TRUE]

DMA_analogReadStart(S, pin, buffer, buffer_size, continuous) ==
    IF pin \notin SwitchLabels THEN S
    ELSE LET s1 == [S EXCEPT !.adc.ain = @ \cup {adc_ch(pin)}]
             s2 == [s1 EXCEPT !.adc = [ResetADC EXCEPT !.ain = s1.adc.ain]]
             s3 == [s2 EXCEPT !.adc.cont = TRUE]
             s4 == [s3 EXCEPT !.adc.ch = adc_ch(pin)]
             s5 == [s4 EXCEPT !.adc.en = TRUE]
             s6 == DMA_ADC_Init(s5, adc_dma_channel, buffer, buffer_size, continuous)
             s7 == [s6 EXCEPT !.D = DMA_Start(s6.D, adc_dma_channel)]
             s8 == [s7 EXCEPT !.adc.conv = TRUE]
         IN  [s8 EXCEPT !.adc_dma_active = 1]

DMA_analogReadStop(S) ==
    IF S.adc_dma_active # 0
    THEN [S EXCEPT !.adc.conv = FALSE, !.adc.en = FALSE,
                   !.D = DMA_Stop(S.D, adc_dma_channel), !.adc_dma_active = 0]
    ELSE S

DMA_analogReadBusy(S) == S.adc_dma_active

\* the argument pin: a GPIO_Pin constant, or the number of the case label
\* that the switch comments as PD2
PinArgs == GPIO_Pin \cup {\h32}

\* a call of one of the three functions
AnalogCall(o, r, S, x, pins) ==
    /\ app = "idle"
    /\ MainRuns
    /\ CanUse(adc_dma_channel)
    /\ app' = IF r.ret = "void" THEN "idle" ELSE "returned"
    /\ dma_op' = IF r.ret = "void" THEN NoDMAOp ELSE o
    /\ dma_ret' = IF r.ret = "void" THEN NoDMARet ELSE r
    /\ SetDMAState(S.D)
    /\ adc' = S.adc
    /\ adc_dma_active' = S.adc_dma_active
    /\ adc_pin' = pins
    /\ xfer' = x
    /\ used' = used \cup {adc_dma_channel}
    /\ irq' = NoIrq
    /\ UNCHANGED <<wait, elapsed, polled>>
    /\ UNCHANGED flashOnly

Call_DMA_analogReadStart ==
    \E pin \in PinArgs, buffer_size \in 1 .. MaxTransfer, continuous \in {0, 1} :
        AnalogCall(DMAOp("DMA_analogReadStart", adc_dma_channel, pin, "none"),
                   DMARet("void", 0),
                   DMA_analogReadStart(AnalogState, pin, Zeros(buffer_size), buffer_size,
                                       continuous),
                   IF pin \in SwitchLabels THEN Begun(adc_dma_channel, "started") ELSE xfer,
                   {pin})

Call_DMA_analogReadStop ==
    AnalogCall(DMAOp("DMA_analogReadStop", adc_dma_channel, 0, "none"), DMARet("void", 0),
               DMA_analogReadStop(AnalogState),
               IF adc_dma_active # 0 THEN Forget(adc_dma_channel) ELSE xfer, {})

Call_DMA_analogReadBusy ==
    AnalogCall(DMAOp("DMA_analogReadBusy", adc_dma_channel, 0, "none"),
               DMARet("value", DMA_analogReadBusy(AnalogState)), AnalogState, xfer, adc_pin)

AnalogReadNext ==
    \/ Call_DMA_analogReadStart
    \/ Call_DMA_analogReadStop
    \/ Call_DMA_analogReadBusy
    \/ DMA_Continue
    \/ HW_Transfer
    \/ HW_TransferError

(* ======================= wear-levelling example ======================= *)
(* Examples/Flash/flash_wear_leveling.c: a WearLevelSlot_t is timestamp    *)
(* (4 bytes), counter (2 bytes) and crc (2 bytes), little-endian; the data *)
(* page holds MAX_SLOTS of them.                                           *)
MaxWrites == 12         \* writes of one run of example_wear_leveling

FLASH_DATA_SIZE == FLASH_PAGE_SIZE
SLOT_SIZE == 8
CRC_SIZE == 2
MAX_SLOTS == FLASH_DATA_SIZE \div SLOT_SIZE
SLOT_ADDR(n) == FLASH_DATA_ADDR + (n * SLOT_SIZE)

\* 32-bit values are pairs <<low half-word, high half-word>>
Add32(a, b) ==
    LET lo == a[1] + b[1]
    IN  <<lo % 65536, (a[2] + b[2] + (lo \div 65536)) % 65536>>
Gt32(a, b) == a[2] > b[2] \/ (a[2] = b[2] /\ a[1] > b[1])
EmptyTimestamp == <<65535, 65535>>

\* the fields of a slot held in a buffer of bytes
SlotTimestamp(buf) == <<buf[1] + 256 * buf[2], buf[3] + 256 * buf[4]>>
SlotCounter(buf) == buf[5] + 256 * buf[6]
SlotBytes(timestamp, counter) ==
    <<LoByte(timestamp[1]), HiByte(timestamp[1]), LoByte(timestamp[2]),
      HiByte(timestamp[2]), LoByte(counter), HiByte(counter)>>

RECURSIVE FindLatestFrom(_, _, _, _)
FindLatestFrom(fl, i, latest_time, latest_slot) ==
    IF i >= MAX_SLOTS THEN latest_slot
    ELSE LET slot == Flash_ReadStruct(fl, SLOT_ADDR(i), SLOT_SIZE - CRC_SIZE).buffer
             stored_crc == Flash_ReadHalfWord(fl, SLOT_ADDR(i) + SLOT_SIZE - CRC_SIZE)
             calc_crc == Flash_CalculateCRC16(slot, SLOT_SIZE - CRC_SIZE)
         IN  IF SlotTimestamp(slot) = EmptyTimestamp
             THEN FindLatestFrom(fl, i + 1, latest_time, latest_slot)
             ELSE IF stored_crc # calc_crc
             THEN FindLatestFrom(fl, i + 1, latest_time, latest_slot)
             ELSE IF Gt32(SlotTimestamp(slot), latest_time)
             THEN FindLatestFrom(fl, i + 1, SlotTimestamp(slot), i)
             ELSE FindLatestFrom(fl, i + 1, latest_time, latest_slot)

find_latest_slot(fl) == FindLatestFrom(fl, 0, <<0, 0>>, -1)

find_next_slot(current_slot) == (current_slot + 1) % MAX_SLOTS

\* now is the value millis() returns
write_with_wear_leveling(c, p, value, now) ==
    LET latest_slot == find_latest_slot(c.fl)
        next_slot == IF latest_slot >= 0 THEN find_next_slot(latest_slot) ELSE 0
        data == SlotBytes(now, value)
        crc == Flash_CalculateCRC16(data, SLOT_SIZE - CRC_SIZE)
        slot == data \o <<LoByte(crc), HiByte(crc)>>
        check_slot == Flash_ReadStruct(c.fl, SLOT_ADDR(next_slot), SLOT_SIZE).buffer
        c1 == IF SlotTimestamp(check_slot) # EmptyTimestamp
              THEN Flash_ErasePage(c, p, FLASH_DATA_PAGE).c ELSE c
        r == Flash_WriteStruct(c1, p, SLOT_ADDR(next_slot), slot, SLOT_SIZE)
    IN  [c |-> r.c, ret |-> BoolStr(r.ret = "FLASH_OK")]

\* value is what *value holds afterwards; it is not written when no slot is found
read_latest_value(fl, value) ==
    LET latest_slot == find_latest_slot(fl)
        slot == Flash_ReadStruct(fl, SLOT_ADDR(latest_slot), SLOT_SIZE - CRC_SIZE).buffer
    IN  IF latest_slot < 0 THEN [ret |-> "false", value |-> value]
        ELSE [ret |-> "true", value |-> SlotCounter(slot)]

(* ---------- example_wear_leveling ---------- *)
\* time between two readings of millis(): the Delay_Ms(100) of the loop, or
\* the device running on for 2^31 ms before the next write
DelayMs == <<100, 0>>
LongRun == <<0, 32768>>
Delays == {DelayMs, LongRun}

\* a step of the example that calls into the flash
WearStep(o, r, now, i) ==
    /\ app = "idle"
    /\ app' = "returned"
    /\ fop' = o
    /\ flash' = r.c.fl
    /\ vendor_oob' = (vendor_oob \/ r.c.oob)
    /\ vfail' = r.c.vfail
    /\ ncalls' = r.c.n
    /\ fret' = r.ret
    /\ fout' = NoOut
    /\ millis' = now
    /\ wl_i' = i
    /\ UNCHANGED flash_initialized
    /\ UNCHANGED dmaVars

Wear_ErasePage ==
    /\ wl_i = 0
    /\ WearStep(Op("Flash_ErasePage", FLASH_DATA_PAGE, 0, <<>>),
                Flash_ErasePage(Ctx(flash), NoFault, FLASH_DATA_PAGE), millis, 1)

\* write #i of the loop, with value i * 10, after some time has passed
Wear_write_with_wear_leveling ==
    /\ wl_i >= 1
    /\ wl_i <= MaxWrites
    /\ \E d \in Delays :
        LET now == Add32(millis, d)
        IN  WearStep(Op("write_with_wear_leveling", 0, wl_i * 10, <<>>),
                     write_with_wear_leveling(Ctx(flash), NoFault, wl_i * 10, now),
                     now, wl_i + 1)

Wear_read_latest_value ==
    /\ wl_i >= 2
    /\ LET r == read_latest_value(flash, 0)
       IN  /\ app = "idle"
           /\ app' = "returned"
           /\ fop' = Op("read_latest_value", 0, 0, <<>>)
           /\ fret' = r.ret
           /\ fout' = [val |-> r.value, buf |-> <<>>]
           /\ vfail' = FALSE
           /\ ncalls' = 0
           /\ UNCHANGED <<flash, flash_initialized, vendor_oob, wearVars>>
           /\ UNCHANGED dmaVars

WearNext ==
    \/ Wear_ErasePage
    \/ Wear_write_with_wear_leveling
    \/ Wear_read_latest_value
    \/ App_Continue

vars == <<flashVars, dmaVars, wearVars>>
Init == FlashInitState /\ DMAInitState
FlashSpec == Init /\ [][FlashNext]_vars
DMASpec == Init /\ [][DMANext]_vars
MultiChannelSpec == Init /\ [][MultiChannelNext]_vars
AnalogReadSpec == Init /\ [][AnalogReadNext]_vars
WearSpec == Init /\ [][WearNext]_vars

(* ========================= SimpleFlash claims ========================= *)
Returned(name) == app = "returned" /\ fop.name = name

\* the 16 bits stored in the config page directly after `size` data bytes
StoredCRC(fl, size) ==
    fl[Idx(FLASH_CONFIG_ADDR + size)] + 256 * fl[Idx(FLASH_CONFIG_ADDR + size + 1)]

ConfigData(fl, size) == [i \in 1 .. size |-> fl[Idx(FLASH_CONFIG_ADDR + i - 1)]]

ConfigSizes == 1 .. (FLASH_CONFIG_SIZE - 2)

ConfigPageErased(fl) ==
    \A i \in 0 .. (FLASH_PAGE_SIZE - 1) : fl[Idx(FLASH_CONFIG_ADDR + i)] = 255

\* some size in 1..62 whose data bytes are followed by their CRC16
RECURSIVE CrcMatchesFrom(_, _, _)
CrcMatchesFrom(fl, crc, size) ==
    IF size > FLASH_CONFIG_SIZE - 2 THEN FALSE
    ELSE LET next == CrcByte(crc, fl[Idx(FLASH_CONFIG_ADDR + size - 1)])
         IN  \/ StoredCRC(fl, size) = next
             \/ CrcMatchesFrom(fl, next, size + 1)

HoldsSavedConfig(fl) == CrcMatchesFrom(fl, 65535, 1)

(* C1: Flash_SaveConfig(p, size) with 1 <= size <= 62 whose vendor calls   *)
(* all succeed returns FLASH_OK, and Flash_LoadConfig(q, size) then        *)
(* returns true with q equal to p.                                         *)
C1_SaveThenLoadRoundTrip ==
    (Returned("Flash_SaveConfig") /\ fop.val \in ConfigSizes /\ ~vfail)
    => /\ fret = "FLASH_OK"
       /\ Flash_LoadConfig(flash, fop.val).ok
       /\ Flash_LoadConfig(flash, fop.val).buffer = fop.buf

(* C2: Flash_LoadConfig(ptr, size) returns true only if the 16 bits stored *)
(* directly after the size data bytes equal the CRC16 of those bytes; it   *)
(* returns false for an erased page and whenever data and CRC mismatch.    *)
C2_LoadConfigChecksStoredCRC ==
    (Returned("Flash_LoadConfig") /\ fop.val \in ConfigSizes)
    => /\ (fret = "true") <=>
              (StoredCRC(flash, fop.val)
                   = Flash_CalculateCRC16(ConfigData(flash, fop.val), fop.val))
       /\ ConfigPageErased(flash) => fret = "false"

(* C6: Flash_IsConfigValid() returns true only if the config page holds a  *)
(* saved configuration whose stored CRC16 matches its data; it returns     *)
(* false for an erased page and for a page with corrupted bytes or CRC.    *)
C6_IsConfigValidChecksCRC ==
    Returned("Flash_IsConfigValid")
    => /\ (fret = "true") => HoldsSavedConfig(flash)
       /\ ConfigPageErased(flash) => fret = "false"

(* C7: no public Flash_* call issues a vendor erase or program outside the *)
(* storage area, every flash byte outside it keeps its initial value, and  *)
(* Flash_ErasePage of a page other than 254 and 255 returns                *)
(* FLASH_ERROR_RANGE without a vendor call.                                *)
C7_OnlyStorageAreaTouched ==
    /\ ~vendor_oob
    /\ \A a \in WindowStart .. (FLASH_STORAGE_START_ADDR - 1) :
           flash[Idx(a)] = InitFlash[Idx(a)]
    /\ (Returned("Flash_ErasePage")
        /\ fop.addr # FLASH_CONFIG_PAGE /\ fop.addr # FLASH_DATA_PAGE)
       => (fret = "FLASH_ERROR_RANGE" /\ ncalls = 0)

C7_Witness ==
    /\ flash # InitFlash
    /\ Returned("Flash_WriteHalfWord")
    /\ fop.addr = FLASH_STORAGE_START_ADDR - 2
    /\ fret = "FLASH_ERROR_RANGE"

(* C8: a public Flash_* operation in which a vendor erase or program call  *)
(* returned a status other than FLASH_COMPLETE does not return FLASH_OK.   *)
C8_VendorFailurePropagates ==
    (app = "returned" /\ vfail) => fret # "FLASH_OK"

C8_Witness ==
    /\ Returned("Flash_SaveConfig")
    /\ vfail
    /\ ncalls = 4
    /\ fret = "FLASH_ERROR_BUSY"

(* C9: when Flash_WriteByteWithErase(addr, data) returns FLASH_OK, the     *)
(* byte at addr reads data and every other byte of the storage area has    *)
(* the value it had before the call.                                       *)
C9_WriteByteWithEraseFrame ==
    [][(app' = "returned" /\ fop'.name = "Flash_WriteByteWithErase"
        /\ fret' = "FLASH_OK")
       => /\ Flash_ReadByte(flash', fop'.addr) = fop'.val
          /\ \A a \in StorageArea \ {fop'.addr} : flash'[Idx(a)] = flash[Idx(a)]]_vars

C9_Witness ==
    /\ Returned("Flash_WriteByteWithErase")
    /\ fret = "FLASH_OK"
    /\ fop.addr = FLASH_CONFIG_ADDR + 1
    /\ fop.val = 90
    /\ flash[Idx(FLASH_CONFIG_ADDR)] = 0
    /\ flash[Idx(FLASH_CONFIG_ADDR + 1)] = 90
    /\ flash[Idx(FLASH_DATA_ADDR + FLASH_PAGE_SIZE - 1)] = 0

(* ========================== SimpleDMA claims ========================== *)
DMAReturned(name) == app = "returned" /\ dma_op.name = name

(* C3: after DMA_MemCopyAsync(ch, ...), DMA_GetStatus(ch) returns           *)
(* DMA_STATUS_BUSY until the hardware signals transfer-complete for the    *)
(* channel, and DMA_STATUS_COMPLETE on every call after that, as long as   *)
(* the channel is not started, stopped or reset again.                     *)
C3_BusyUntilTransferComplete ==
    DMAReturned("DMA_GetStatus") =>
        /\ dma_op.seen \in {"async", "async_te"} => dma_ret.ret = "DMA_STATUS_BUSY"
        /\ dma_op.seen = "async_tc" => dma_ret.ret = "DMA_STATUS_COMPLETE"

(* C3, amended: after DMA_MemCopyAsync(ch, ...), DMA_GetStatus(ch) returns  *)
(* DMA_STATUS_BUSY until the hardware signals transfer-complete or         *)
(* transfer-error for the channel; after transfer-complete every call      *)
(* returns DMA_STATUS_COMPLETE and after transfer-error every call returns *)
(* DMA_STATUS_ERROR, as long as the channel is not started, stopped or     *)
(* reset again.                                                            *)
C3_BusyUntilCompleteOrError ==
    DMAReturned("DMA_GetStatus") =>
        /\ dma_op.seen = "async" => dma_ret.ret = "DMA_STATUS_BUSY"
        /\ dma_op.seen = "async_tc" => dma_ret.ret = "DMA_STATUS_COMPLETE"
        /\ dma_op.seen = "async_te" => dma_ret.ret = "DMA_STATUS_ERROR"

C3_Witness ==
    /\ DMAReturned("DMA_GetStatus")
    /\ dma_op.seen = "async_tc"
    /\ dma_ret.ret = "DMA_STATUS_COMPLETE"
    /\ transfer_complete_callbacks[dma_op.channel] = "NULL"
    /\ Len(mem[dma_op.channel]) = MaxTransfer

\* the transfer-complete callbacks invoked for the transfer in progress on
\* channel n, which DMA_MemCopyAsync began after the callback was registered:
\* none before the hardware signals transfer-complete, never more than one,
\* the registered one with argument n, and one once `served` holds
CallbackOnce(n, served) ==
    (xfer[n].armed /\ xfer[n].kind \in {"async", "async_tc", "async_te"}) =>
        /\ xfer[n].tc_calls <= 1
        /\ xfer[n].tc_calls = 1 =>
               /\ xfer[n].kind = "async_tc"
               /\ xfer[n].tc_fn = xfer[n].cb
               /\ xfer[n].tc_arg = n
        /\ (xfer[n].kind = "async_tc" /\ served) => xfer[n].tc_calls = 1

(* C4: a callback registered with DMA_SetTransferCompleteCallback(ch, cb)  *)
(* is invoked exactly once, with argument ch, for every transfer that is   *)
(* started afterwards with DMA_MemCopyAsync(ch, ...), when that transfer   *)
(* completes: once the hardware has signalled transfer-complete and no     *)
(* interrupt handler is about to run, cb has been invoked once.            *)
C4_CallbackOnceWhenComplete ==
    \A n \in DMA_Channels : CallbackOnce(n, ~IrqPending(n))

(* C4, amended: such a callback is invoked at most once per transfer, only *)
(* after the hardware has signalled transfer-complete and with argument    *)
(* ch; it has been invoked once as soon as the transfer has completed and  *)
(* the channel's interrupt line is enabled, that is, unless the            *)
(* application has switched it off with DMA_EnableInterrupt(ch, 0).        *)
C4_CallbackOncePerTransfer ==
    \A n \in DMA_Channels : CallbackOnce(n, n \in nvic /\ ~IrqPending(n))

C4_Witness ==
    /\ xfer[DMA_CH7].armed
    /\ xfer[DMA_CH7].kind = "async_tc"
    /\ xfer[DMA_CH7].tc_calls = 1
    /\ xfer[DMA_CH7].tc_fn = on_transfer_complete
    /\ xfer[DMA_CH7].tc_arg = DMA_CH7
    /\ mem[DMA_CH7] = SourceData(MaxTransfer)
    /\ DMA_CH7 \in nvic
    /\ ~IrqPending(DMA_CH7)

(* C5: DMA_WaitComplete(channel, timeout_ms) with timeout_ms > 0 returns 0 *)
(* once timeout_ms milliseconds have passed without the transfer           *)
(* completing: it is never still in its loop, having looked at the status  *)
(* again, when that time has passed.                                       *)
C5_WaitCompleteTimesOut ==
    ~(/\ app = "waiting"
      /\ wait.fn = "DMA_WaitComplete"
      /\ wait.timeout_ms > 0
      /\ elapsed >= wait.timeout_ms
      /\ polled)

(* C10: when DMA_MemCopy(dst, src, size) returns, the status of channel 1  *)
(* is DMA_STATUS_COMPLETE and dst holds the size bytes of src.             *)
C10_MemCopyReturnsComplete ==
    DMAReturned("DMA_MemCopy") =>
        /\ channel_status[DMA_CH1] = "DMA_STATUS_COMPLETE"
        /\ mem[DMA_CH1] = periph[DMA_CH1]

(* C11: with transfers in progress on several channels, the interrupt of   *)
(* channel n (n = 1 .. 7) changes no status but channel n's, which becomes *)
(* COMPLETE or ERROR, changes no registered callback, and invokes exactly  *)
(* the callbacks registered for channel n whose flag is set, each with     *)
(* argument n.                                                             *)
OwnChannelOnly(n) ==
    LET tc == DMA1_IT_TC(n) \in intfr /\ transfer_complete_callbacks[n] # "NULL"
        te == DMA1_IT_TE(n) \in intfr /\ error_callbacks[n] # "NULL"
    IN  /\ \A m \in DMA_Channels \ {n} : channel_status'[m] = channel_status[m]
        /\ channel_status'[n] \in {"DMA_STATUS_COMPLETE", "DMA_STATUS_ERROR"}
        /\ transfer_complete_callbacks' = transfer_complete_callbacks
        /\ error_callbacks' = error_callbacks
        /\ irq'.line = n
        /\ irq'.calls = (IF tc THEN << <<"TC", transfer_complete_callbacks[n], n>> >>
                         ELSE <<>>)
                        \o (IF te THEN << <<"TE", error_callbacks[n], n>> >> ELSE <<>>)

C11_InterruptTouchesOwnChannelOnly ==
    [][/\ DMA1_Channel1_IRQHandler => OwnChannelOnly(DMA_CH1)
       /\ DMA1_Channel2_IRQHandler => OwnChannelOnly(DMA_CH2)
       /\ DMA1_Channel3_IRQHandler => OwnChannelOnly(DMA_CH3)
       /\ DMA1_Channel4_IRQHandler => OwnChannelOnly(DMA_CH4)
       /\ DMA1_Channel5_IRQHandler => OwnChannelOnly(DMA_CH5)
       /\ DMA1_Channel6_IRQHandler => OwnChannelOnly(DMA_CH6)
       /\ DMA1_Channel7_IRQHandler => OwnChannelOnly(DMA_CH7)]_vars

\* channel 2's handler has run and invoked channel 2's callback while the
\* copy on channel 1, begun with another callback, is still in progress
C11_Witness ==
    /\ irq = [line |-> DMA_CH2, calls |-> << <<"TC", on_ch2_complete, DMA_CH2>> >>]
    /\ channel_status[DMA_CH2] = "DMA_STATUS_COMPLETE"
    /\ xfer[DMA_CH2].kind = "async_tc"
    /\ xfer[DMA_CH1].kind = "async"
    /\ xfer[DMA_CH1].armed
    /\ transfer_complete_callbacks[DMA_CH1] = on_ch1_complete
    /\ chan[DMA_CH1].en
    /\ chan[DMA_CH1].cntr > 0
    /\ channel_status[DMA_CH1] = "DMA_STATUS_BUSY"
    /\ xfer[DMA_CH1].tc_calls = 0

(* C12: once DMA_analogReadStart has been called with the GPIO_Pin         *)
(* constant of an ADC-capable pin, the acquisition is running and          *)
(* DMA_analogReadBusy() returns 1, until DMA_analogReadStop is called.     *)
C12_AnalogReadStartMakesBusy ==
    (/\ DMAReturned("DMA_analogReadBusy")
     /\ \E pin \in GPIO_Pin : IS_ADC_PIN(pin) /\ adc_pin = {pin})
    => /\ dma_ret.val = 1
       /\ adc.conv
       /\ adc.dma

(* C13: after Flash_ErasePage(FLASH_DATA_PAGE) and k >= 1 calls of         *)
(* write_with_wear_leveling, read_latest_value returns true and yields the *)
(* value of the last write (write #k wrote k * 10).                        *)
C13_ReadLatestYieldsLastWrite ==
    (Returned("read_latest_value") /\ wl_i >= 2)
    => /\ fret = "true"
       /\ fout.val = (wl_i - 1) * 10

====
